---- MODULE Spec2Model ----
(***************************************************************************)
(* A model of the order-notification bridge: db.py (phone normalisation,   *)
(* phone matching, the two order fetches) and app.py (the messaging        *)
(* gateway call, the batch sender and the HTTP operations order_status and *)
(* automate_send_messages).                                                *)
(*                                                                         *)
(* A Python str is a sequence of one-character strings.  Python's None and *)
(* a dictionary key that is absent are the two markers None and Missing:   *)
(* one-element sequences whose element is no character, so that they are   *)
(* equal to no str.                                                        *)
(***************************************************************************)
EXTENDS Integers, Sequences, FiniteSets, TLC

VARIABLES
    op,             \* the operation this behaviour runs
    pc,             \* the position of the running operation
    db_phone,       \* phone_matches: first argument (the stored phone)
    wa_phone,       \* phone_matches, order_status: the caller's phone
    matched,        \* phone_matches: the returned value ("unset" before)
    default_country_code,  \* DEFAULT_COUNTRY_CODE
    parsed,         \* parse_phone_number: the returned pair, or NotParsed
    req_order_id,   \* order_status: request.args.get("order_id")
    order_id_int,   \* order_status: int(order_id)
    conn,           \* the database connection: "none", "open", "closed"
    row,            \* cursor.fetchone(): a row, or NoRow
    order_data,     \* fetch_order_with_validation: first returned value
    authorized,     \* fetch_order_with_validation: second returned value
    api_key,        \* INTERAKT_API_KEY is set
    gateway_log,    \* the calls of interakt_send_order_status so far
    response,       \* the HTTP response, or NoResponse
    delay,          \* delay_seconds
    dry_run,        \* dry_run
    rows,           \* cursor.fetchall()
    orders,         \* the order list: fetched, or passed to the batch sender
    idx,            \* send_batch_whatsapp_messages: position of the for loop
    results,        \* send_batch_whatsapp_messages: the results dictionary
    pauses          \* the orders after which time.sleep returned

vars == <<op, pc, db_phone, wa_phone, matched, default_country_code, parsed,
          req_order_id, order_id_int,
          conn, row, order_data, authorized, api_key, gateway_log, response,
          delay, dry_run, rows, orders, idx, results, pauses>>

phoneVars == <<db_phone, matched, default_country_code, parsed>>
singleVars == <<req_order_id, order_id_int, row, order_data, authorized>>
batchVars == <<delay, dry_run, rows, orders, idx, results, pauses>>

----------------------------------------------------------------------------
(* Python values *)

None == <<"<None>">>
Missing == <<"<missing>">>
Digits == {"0", "1", "2", "3", "4", "5", "6", "7", "8", "9"}
Whitespace == {" "}

\* Python truth of a str-or-None: None and "" are false
Truthy(x) == x # None /\ x # Missing /\ x # <<>>

\* a or b
PyOr(a, b) == IF Truthy(a) THEN a ELSE b

\* dict.get(key, default)
DictGet(v, default) == IF v = Missing THEN default ELSE v

RECURSIVE LStrip(_)
LStrip(s) == IF s # <<>> /\ Head(s) \in Whitespace THEN LStrip(Tail(s)) ELSE s

RECURSIVE RStrip(_)
RStrip(s) ==
    IF s # <<>> /\ s[Len(s)] \in Whitespace
    THEN RStrip(SubSeq(s, 1, Len(s) - 1)) ELSE s

\* str.strip()
Strip(s) == RStrip(LStrip(s))

IsDigit(ch) == ch \in Digits

\* s[-n:]
LastN(s, n) == IF Len(s) <= n THEN s ELSE SubSeq(s, Len(s) - n + 1, Len(s))

----------------------------------------------------------------------------
(* db.py: normalize_phone, phone_matches *)

SuffixLen == 9

normalize_phone(phone) ==
    IF ~Truthy(phone) THEN <<>> ELSE SelectSeq(phone, IsDigit)

phone_matches_no_empty_check(db, wa) ==
    LET db_norm == normalize_phone(db)
        wa_norm == normalize_phone(wa)
    IN  IF db_norm = wa_norm THEN TRUE
        ELSE LastN(db_norm, SuffixLen) = LastN(wa_norm, SuffixLen)

phone_matches_needs_suffix(db, wa) ==
    LET db_norm == normalize_phone(db)
        wa_norm == normalize_phone(wa)
    IN  IF db_norm = <<>> \/ wa_norm = <<>> THEN FALSE
        ELSE /\ Len(db_norm) >= SuffixLen
             /\ Len(wa_norm) >= SuffixLen
             /\ LastN(db_norm, SuffixLen) = LastN(wa_norm, SuffixLen)

\* the suffix test as "one number ends with the other's last nine digits"
phone_matches_ends_with(db, wa) ==
    LET db_norm == normalize_phone(db)
        wa_norm == normalize_phone(wa)
        EndsWith(x, y) == Len(x) >= Len(y) /\ LastN(x, Len(y)) = y
    IN  IF db_norm = <<>> \/ wa_norm = <<>> THEN FALSE
        ELSE IF db_norm = wa_norm THEN TRUE
        ELSE \/ EndsWith(db_norm, LastN(wa_norm, SuffixLen))
             \/ EndsWith(wa_norm, LastN(db_norm, SuffixLen))

phone_matches(db, wa) ==
    LET db_norm == normalize_phone(db)
        wa_norm == normalize_phone(wa)
    IN  IF db_norm = <<>> \/ wa_norm = <<>> THEN FALSE
        ELSE IF db_norm = wa_norm THEN TRUE
        ELSE LastN(db_norm, SuffixLen) = LastN(wa_norm, SuffixLen)

----------------------------------------------------------------------------
(* The phone strings the operations are run on: a short prefix of country  *)
(* code digits, "+" and blanks, followed by a subscriber tail.             *)

MaxPrefix == 2

PrefixChars == {"9", "1", "+", " "}

RECURSIVE SeqsUpTo(_, _)
SeqsUpTo(S, n) ==
    IF n = 0 THEN {<<>>}
    ELSE LET shorter == SeqsUpTo(S, n - 1)
         IN  shorter \cup {Append(s, c) : s \in shorter, c \in S}

Tail8 == <<"8", "8", "3", "4", "8", "8", "6", "5">>
Tail9 == <<"5">> \o Tail8
Tail9b == <<"6">> \o Tail8
Tail10 == <<"7">> \o Tail9
Tails == {<<>>, Tail8, Tail9, Tail9b, Tail10}

Phones == {p \o t : p \in SeqsUpTo(PrefixChars, MaxPrefix), t \in Tails}

\* what a nullable phone column or an optional parameter can hold
PhoneValues == Phones \cup {None}

\* app.py line 13: os.getenv("DEFAULT_COUNTRY_CODE", "+91")
DefaultCode == <<"+", "9", "1">>
NotParsed == [country_code |-> None, phone_number |-> None]
NoRow == [found |-> FALSE]
NoOrder == [order_id |-> None]
NoResponse == [code |-> 0, kind |-> "none"]
NoDelay == [kind |-> "unset"]
NoResults == [total |-> 0, success |-> 0, failed |-> 0, skipped |-> 0,
              details |-> <<>>]

----------------------------------------------------------------------------
(* phone_matches applied to a pair of phones *)

InitPhone ==
    /\ op = "phone_matches"
    /\ pc = "start"
    /\ db_phone \in PhoneValues
    /\ wa_phone \in PhoneValues
    /\ matched = "unset"
    /\ default_country_code = DefaultCode
    /\ parsed = NotParsed
    /\ req_order_id = None
    /\ order_id_int = 0
    /\ conn = "none"
    /\ row = NoRow
    /\ order_data = NoOrder
    /\ authorized = FALSE
    /\ api_key = TRUE
    /\ gateway_log = <<>>
    /\ response = NoResponse
    /\ delay = NoDelay
    /\ dry_run = FALSE
    /\ rows = <<>>
    /\ orders = <<>>
    /\ idx = 0
    /\ results = NoResults
    /\ pauses = <<>>

CallPhoneMatches ==
    /\ op = "phone_matches"
    /\ pc = "start"
    /\ matched' = phone_matches(db_phone, wa_phone)
    /\ pc' = "done"
    /\ UNCHANGED <<op, db_phone, wa_phone, default_country_code, parsed, conn,
                   api_key, gateway_log, response, singleVars, batchVars>>

----------------------------------------------------------------------------
(* app.py: parse_phone_number *)

\* line 44: the characters that are a digit or "+"
DigitsAndPlus(s) == SelectSeq(s, LAMBDA ch : IsDigit(ch) \/ ch = "+")

\* str.startswith
StartsWith(s, prefix) ==
    Len(s) >= Len(prefix) /\ SubSeq(s, 1, Len(prefix)) = prefix

\* s[n:]
DropFirst(s, n) == SubSeq(s, n + 1, Len(s))

IndiaMinLen == 12
UsMinLen == 11

Pair(code, number) == [country_code |-> code, phone_number |-> number]

\* lines 41-69
parse_phone_number(phone, default) ==
    LET phone_clean == DigitsAndPlus(Strip(phone))
        rest == DropFirst(phone_clean, 1)
    IN  IF StartsWith(phone_clean, <<"+">>)
        THEN IF StartsWith(rest, <<"9", "1">>) /\ Len(rest) >= IndiaMinLen
             THEN Pair(<<"+", "9", "1">>, DropFirst(rest, 2))
             ELSE IF StartsWith(rest, <<"1">>) /\ Len(rest) >= UsMinLen
             THEN Pair(<<"+", "1">>, DropFirst(rest, 1))
             ELSE IF Len(rest) >= IndiaMinLen /\ StartsWith(rest, <<"9", "1">>)
             THEN Pair(<<"+", "9", "1">>, DropFirst(rest, 2))
             ELSE Pair(default, rest)
        ELSE IF StartsWith(phone_clean, <<"9", "1">>)
                /\ Len(phone_clean) >= IndiaMinLen
        THEN Pair(<<"+", "9", "1">>, DropFirst(phone_clean, 2))
        ELSE Pair(default, phone_clean)

\* the phones given to parse_phone_number: the prefixes before a subscriber
\* tail or before a tail with the digit 1 in front
ParseTails == Tails \cup {<<"1">> \o Tail10}
ParsePhones ==
    {p \o t : p \in SeqsUpTo(PrefixChars, MaxPrefix), t \in ParseTails}

\* line 13: the default of the environment, or a configured one
CountryCodes == {DefaultCode, <<"+", "4", "4">>}

InitParse ==
    /\ op = "parse_phone_number"
    /\ pc = "start"
    /\ db_phone = None
    /\ wa_phone \in ParsePhones
    /\ matched = "unset"
    /\ default_country_code \in CountryCodes
    /\ parsed = NotParsed
    /\ req_order_id = None
    /\ order_id_int = 0
    /\ conn = "none"
    /\ row = NoRow
    /\ order_data = NoOrder
    /\ authorized = FALSE
    /\ api_key = TRUE
    /\ gateway_log = <<>>
    /\ response = NoResponse
    /\ delay = NoDelay
    /\ dry_run = FALSE
    /\ rows = <<>>
    /\ orders = <<>>
    /\ idx = 0
    /\ results = NoResults
    /\ pauses = <<>>

CallParsePhoneNumber ==
    /\ op = "parse_phone_number"
    /\ pc = "start"
    /\ parsed' = parse_phone_number(wa_phone, default_country_code)
    /\ pc' = "done"
    /\ UNCHANGED <<op, db_phone, wa_phone, matched, default_country_code,
                   conn, api_key, gateway_log, response, singleVars, batchVars>>

NextPhone == CallPhoneMatches \/ CallParsePhoneNumber

SpecPhone == (InitPhone \/ InitParse) /\ [][NextPhone]_vars

----------------------------------------------------------------------------
(* Python conversions: int(str) and str(int) *)

DigitSeq == <<"0", "1", "2", "3", "4", "5", "6", "7", "8", "9">>
DigitVal(ch) == (CHOOSE i \in 1..10 : DigitSeq[i] = ch) - 1

RECURSIVE DigitsValue(_)
DigitsValue(s) ==
    IF s = <<>> THEN 0
    ELSE 10 * DigitsValue(SubSeq(s, 1, Len(s) - 1)) + DigitVal(s[Len(s)])

\* int(s): blanks around and one sign are accepted, then decimal digits
\* (the "_" separators and non-ASCII digits int() also takes are left out)
PyInt(s) ==
    LET t == Strip(s)
        signed == t # <<>> /\ Head(t) \in {"+", "-"}
        body == IF signed THEN Tail(t) ELSE t
    IN  IF body = <<>> \/ \E i \in 1..Len(body) : ~IsDigit(body[i])
        THEN [ok |-> FALSE, val |-> 0]
        ELSE [ok |-> TRUE,
              val |-> IF signed /\ Head(t) = "-" THEN 0 - DigitsValue(body)
                      ELSE DigitsValue(body)]

RECURSIVE NatStr(_)
NatStr(n) ==
    IF n < 10 THEN <<DigitSeq[n + 1]>>
    ELSE Append(NatStr(n \div 10), DigitSeq[(n % 10) + 1])

\* str(n)
PyStr(n) == IF n < 0 THEN <<"-">> \o NatStr(0 - n) ELSE NatStr(n)

----------------------------------------------------------------------------
(* The inputs of the single-order operations *)

\* request.args.get("order_id"): absent, empty, not an integer, an integer
OrderIdParams ==
    {None, <<>>, <<"x">>, <<"7", "x">>, <<"7">>, <<" ", "7">>, <<"-", "7">>,
     <<"1", "2">>}

\* phones of an order row and of a request: absent, empty, without a digit,
\* the same subscriber written four ways, and two other subscribers
OrderPhones ==
    {None, <<>>, <<"+">>, Tail10, <<"+", "9", "1">> \o Tail10,
     <<"0">> \o Tail10, <<" ">> \o Tail9, Tail9b, Tail8}

\* a row of the SELECT of fetch_order_with_validation; the columns that only
\* fill the order projection (names, total, status, date) are left out
OrderRows(id) ==
    {[found |-> TRUE, order_id |-> id, order_phone |-> o, customer_phone |-> c] :
        o \in OrderPhones, c \in OrderPhones}

\* HTTP status codes the messaging API answers with
GatewayStatuses == {200, 201, 202, 500}

----------------------------------------------------------------------------
(* db.py: fetch_order_with_validation *)

\* a close() that only the returning path reaches
CloseOnReturnOnly(raising) == conn' = IF raising THEN conn ELSE "closed"

\* lines 111-112 and 207-208: finally: conn.close(), on the returning and on
\* the raising path
Finally(raising) == conn' = "closed"

\* lines 55-59: get_connection() returns, or raises and the function raises
FetchOrderConnect ==
    /\ op \in {"order_status", "fetch_order_with_validation"}
    /\ pc = "fetch_connect"
    /\ \/ /\ conn' = "open"
          /\ pc' = "fetch_query"
       \/ /\ conn' = "none"
          /\ pc' = "fetch_raised"
    /\ UNCHANGED <<op, wa_phone, api_key, gateway_log, response, phoneVars,
                   singleVars, batchVars>>

\* lines 62-84 and the finally of line 112: the query fails, or fetchone()
\* gives the row of order_id or nothing
FetchOrderQuery ==
    /\ op \in {"order_status", "fetch_order_with_validation"}
    /\ pc = "fetch_query"
    /\ \/ /\ row' \in OrderRows(order_id_int) \cup {NoRow}
          /\ pc' = "fetch_row"
          /\ UNCHANGED conn
       \/ /\ Finally(TRUE)
          /\ pc' = "fetch_raised"
          /\ UNCHANGED row
    /\ UNCHANGED <<op, wa_phone, api_key, gateway_log, response, phoneVars,
                   req_order_id, order_id_int, order_data, authorized,
                   batchVars>>

\* line 89 with the two columns swapped
StoredPhoneCustomerFirst(r) == PyOr(PyOr(r.customer_phone, r.order_phone), <<>>)

\* line 89
StoredPhone(r) == PyOr(PyOr(r.order_phone, r.customer_phone), <<>>)

\* lines 86-112: the result for the fetched row, or an exception while it is
\* built, and the connection closed either way
FetchOrderReturn ==
    /\ op \in {"order_status", "fetch_order_with_validation"}
    /\ pc = "fetch_row"
    /\ \/ /\ IF row = NoRow
             THEN /\ order_data' = NoOrder
                  /\ authorized' = FALSE
             ELSE /\ order_data' = [order_id |-> PyStr(row.order_id)]
                  /\ authorized' = phone_matches(StoredPhone(row), wa_phone)
          /\ Finally(FALSE)
          /\ pc' = "fetched"
       \/ \* building the projection of a found row raises
          /\ row # NoRow
          /\ Finally(TRUE)
          /\ pc' = "fetch_raised"
          /\ UNCHANGED <<order_data, authorized>>
    /\ UNCHANGED <<op, wa_phone, api_key, gateway_log, response, phoneVars,
                   req_order_id, order_id_int, row, batchVars>>

InitFetchOrder ==
    /\ op = "fetch_order_with_validation"
    /\ pc = "fetch_connect"
    /\ db_phone = None
    /\ wa_phone \in OrderPhones
    /\ matched = "unset"
    /\ default_country_code = DefaultCode
    /\ parsed = NotParsed
    /\ req_order_id = None
    /\ order_id_int \in {7, 12}
    /\ conn = "none"
    /\ row = NoRow
    /\ order_data = NoOrder
    /\ authorized = FALSE
    /\ api_key = TRUE
    /\ gateway_log = <<>>
    /\ response = NoResponse
    /\ delay = NoDelay
    /\ dry_run = FALSE
    /\ rows = <<>>
    /\ orders = <<>>
    /\ idx = 0
    /\ results = NoResults
    /\ pauses = <<>>

----------------------------------------------------------------------------
(* app.py: interakt_send_order_status, as its caller sees it *)

\* lines 84-123: without the credential RuntimeError is raised; else the
\* request is posted, which raises (a transport fault) or gives a status
\* (status 0 stands for "no status": the call raised)
Raises(name) == [raised |-> name, status |-> 0]
Returns(status) == [raised |-> "", status |-> status]

GatewayOutcomes ==
    IF ~api_key THEN {Raises("RuntimeError")}
    ELSE {Raises("RequestException")} \cup {Returns(s) : s \in GatewayStatuses}

Raised(outcome) == outcome.raised # ""

----------------------------------------------------------------------------
(* app.py: order_status *)

InitOrderStatus ==
    /\ op = "order_status"
    /\ pc = "start"
    /\ db_phone = None
    /\ wa_phone \in OrderPhones
    /\ matched = "unset"
    /\ default_country_code = DefaultCode
    /\ parsed = NotParsed
    /\ req_order_id \in OrderIdParams
    /\ order_id_int = 0
    /\ conn = "none"
    /\ row = NoRow
    /\ order_data = NoOrder
    /\ authorized = FALSE
    /\ api_key \in BOOLEAN
    /\ gateway_log = <<>>
    /\ response = NoResponse
    /\ delay = NoDelay
    /\ dry_run = FALSE
    /\ rows = <<>>
    /\ orders = <<>>
    /\ idx = 0
    /\ results = NoResults
    /\ pauses = <<>>

\* lines 295-306: the three validation errors, or on to the fetch
OrderStatusValidate ==
    /\ op = "order_status"
    /\ pc = "start"
    /\ IF ~Truthy(req_order_id)
       THEN /\ response' = [code |-> 400, kind |-> "order_id required"]
            /\ pc' = "done"
            /\ UNCHANGED order_id_int
       ELSE IF ~Truthy(wa_phone)
       THEN /\ response' = [code |-> 400, kind |-> "phone required"]
            /\ pc' = "done"
            /\ UNCHANGED order_id_int
       ELSE IF ~PyInt(req_order_id).ok
       THEN /\ response' = [code |-> 400, kind |-> "order_id must be integer"]
            /\ pc' = "done"
            /\ UNCHANGED order_id_int
       ELSE /\ order_id_int' = PyInt(req_order_id).val
            /\ pc' = "fetch_connect"
            /\ UNCHANGED response
    /\ UNCHANGED <<op, wa_phone, conn, api_key, gateway_log, phoneVars,
                   req_order_id, row, order_data, authorized, batchVars>>

\* lines 311-318: the fetch raised
OrderStatusDatabaseError ==
    /\ op = "order_status"
    /\ pc = "fetch_raised"
    /\ response' = [code |-> 500, kind |-> "Database error"]
    /\ pc' = "done"
    /\ UNCHANGED <<op, wa_phone, conn, api_key, gateway_log, phoneVars,
                   singleVars, batchVars>>

OrderStatusCheckNoAuthorization ==
    /\ op = "order_status"
    /\ pc = "fetched"
    /\ IF order_data = NoOrder
       THEN /\ response' = [code |-> 404, kind |-> "not found"]
            /\ pc' = "done"
       ELSE /\ pc' = "send"
            /\ UNCHANGED response
    /\ UNCHANGED <<op, wa_phone, conn, api_key, gateway_log, phoneVars,
                   singleVars, batchVars>>

\* lines 320-335: not found, not authorized, or on to the gateway
OrderStatusCheck ==
    /\ op = "order_status"
    /\ pc = "fetched"
    /\ IF order_data = NoOrder
       THEN /\ response' = [code |-> 404, kind |-> "not found"]
            /\ pc' = "done"
       ELSE IF ~authorized
       THEN /\ response' = [code |-> 403, kind |-> "phone mismatch"]
            /\ pc' = "done"
       ELSE /\ pc' = "send"
            /\ UNCHANGED response
    /\ UNCHANGED <<op, wa_phone, conn, api_key, gateway_log, phoneVars,
                   singleVars, batchVars>>

\* lines 338-347: the gateway call; an exception of it is not handled here
\* and leaves the request with the framework's 500
OrderStatusSend ==
    /\ op = "order_status"
    /\ pc = "send"
    /\ \E outcome \in GatewayOutcomes :
        /\ gateway_log' = Append(gateway_log,
               [order_id |-> order_data.order_id, outcome |-> outcome])
        /\ response' = IF Raised(outcome)
                       THEN [code |-> 500, kind |-> "unhandled exception"]
                       ELSE [code |-> outcome.status, kind |-> "sent"]
    /\ pc' = "done"
    /\ UNCHANGED <<op, wa_phone, conn, api_key, phoneVars, singleVars,
                   batchVars>>

NextOrder ==
    \/ FetchOrderConnect
    \/ FetchOrderQuery
    \/ FetchOrderReturn
    \/ OrderStatusValidate
    \/ OrderStatusDatabaseError
    \/ OrderStatusCheck
    \/ OrderStatusSend

SpecOrder == (InitOrderStatus \/ InitFetchOrder) /\ [][NextOrder]_vars

----------------------------------------------------------------------------
(* The inputs of the batch operations *)

MaxOrders == 3
MaxRows == 3

MinPhoneLen == 10

\* the phone of an order given to the batch sender: no key, None, empty,
\* too short, long enough only with its blank, long enough
BatchPhones ==
    {Missing, None, <<>>, <<"1", "2", "3">>, <<" ">> \o Tail9, Tail10}

BatchOrder(i, ph) ==
    [order_id |-> PyStr(i), customer_name |-> "Customer", phone |-> ph]

RECURSIVE OrderLists(_)
OrderLists(n) ==
    IF n = 0 THEN {<<>>}
    ELSE LET shorter == OrderLists(n - 1)
         IN  shorter \cup {Append(l, BatchOrder(Len(l) + 1, ph)) :
                              l \in {x \in shorter : Len(x) = n - 1},
                              ph \in BatchPhones}

\* the phone columns of a row of the SELECT of fetch_orders_for_automation
RowPhones ==
    {<<None, None>>, <<<<"1", "2", "3">>, Tail10>>, <<Tail10, None>>,
     <<<<>>, <<"+", "9", "1">> \o Tail10>>}

\* ORDER BY o.order_id DESC: row k of n carries the k-th largest id
RECURSIVE RowLists(_)
RowLists(n) ==
    IF n = 0 THEN {<<>>}
    ELSE LET shorter == RowLists(n - 1)
         IN  shorter \cup
             {<<[order_id |-> n, order_phone |-> p[1], customer_phone |-> p[2]]>>
                 \o l : l \in {x \in shorter : Len(x) = n - 1}, p \in RowPhones}

\* delay_seconds: a number, float("inf"), or a JSON value that is no number
Number(v) == [kind |-> "number", val |-> v]
Infinity == [kind |-> "inf", val |-> 0]
NotANumber == [kind |-> "str", val |-> 0]
\* what request.args.get(..., type=float) can give
QueryDelays == {Number(0 - 1), Number(0), Number(1), Infinity}
\* what data.get("delay_seconds", 1.0) can give
JsonDelays == QueryDelays \cup {NotANumber}

----------------------------------------------------------------------------
(* app.py: send_batch_whatsapp_messages *)

\* line 151 without the strip()
SkippedUnstripped(ph) == ~Truthy(ph) \/ Len(ph) < MinPhoneLen

\* line 151: not phone or len(phone.strip()) < 10
Skipped(ph) == ~Truthy(ph) \/ Len(Strip(ph)) < MinPhoneLen

\* line 148: order.get("phone", "")
PhoneOf(order) == DictGet(order.phone, <<>>)

Detail(order, status, code) ==
    [order_id |-> order.order_id, status |-> status, code |-> code]

Record(res, counter, detail) ==
    [res EXCEPT ![counter] = @ + 1, !.details = Append(@, detail)]

\* lines 139-145
BatchStart ==
    /\ op \in {"automate_send_messages", "send_batch_whatsapp_messages"}
    /\ pc = "batch_start"
    /\ results' = [total |-> Len(orders), success |-> 0, failed |-> 0,
                   skipped |-> 0, details |-> <<>>]
    /\ idx' = 1
    /\ pc' = "batch_loop"
    /\ UNCHANGED <<op, wa_phone, conn, api_key, gateway_log, response,
                   phoneVars, singleVars, delay, dry_run, rows, orders, pauses>>

\* lines 147-158 and 207: the loop ends, or its next order is skipped, or
\* goes to the gateway
BatchLoop ==
    /\ op \in {"automate_send_messages", "send_batch_whatsapp_messages"}
    /\ pc = "batch_loop"
    /\ IF idx > Len(orders)
       THEN /\ pc' = "batch_returned"
            /\ UNCHANGED <<idx, results>>
       ELSE IF Skipped(PhoneOf(orders[idx]))
       THEN /\ results' = Record(results, "skipped",
                                 Detail(orders[idx], "skipped", 0))
            /\ idx' = idx + 1
            /\ UNCHANGED pc
       ELSE /\ pc' = "batch_call"
            /\ UNCHANGED <<idx, results>>
    /\ UNCHANGED <<op, wa_phone, conn, api_key, gateway_log, response,
                   phoneVars, singleVars, delay, dry_run, rows, orders, pauses>>

\* lines 197-205: the handler of the try of line 160
BatchExcept ==
    /\ results' = Record(results, "failed", Detail(orders[idx], "error", 0))
    /\ idx' = idx + 1
    /\ pc' = "batch_loop"

\* no handler: the exception leaves the batch run
BatchPropagate ==
    /\ pc' = "batch_raised"
    /\ UNCHANGED <<idx, results>>

BatchCallUncaught ==
    /\ op \in {"automate_send_messages", "send_batch_whatsapp_messages"}
    /\ pc = "batch_call"
    /\ \E outcome \in GatewayOutcomes :
        /\ gateway_log' = Append(gateway_log,
               [order_id |-> orders[idx].order_id, outcome |-> outcome])
        /\ IF Raised(outcome)
           THEN BatchPropagate
           ELSE /\ results' =
                     IF outcome.status \in {200, 201}
                     THEN Record(results, "success",
                              Detail(orders[idx], "success", outcome.status))
                     ELSE Record(results, "failed",
                              Detail(orders[idx], "failed", outcome.status))
                /\ pc' = "batch_delay"
                /\ UNCHANGED idx
    /\ UNCHANGED <<op, wa_phone, conn, api_key, response, phoneVars,
                   singleVars, delay, dry_run, rows, orders, pauses>>

BatchCallFatalCredential ==
    /\ op \in {"automate_send_messages", "send_batch_whatsapp_messages"}
    /\ pc = "batch_call"
    /\ \E outcome \in GatewayOutcomes :
        /\ gateway_log' = Append(gateway_log,
               [order_id |-> orders[idx].order_id, outcome |-> outcome])
        /\ IF outcome = Raises("RuntimeError")
           THEN BatchPropagate
           ELSE IF Raised(outcome)
           THEN BatchExcept
           ELSE /\ results' =
                     IF outcome.status \in {200, 201}
                     THEN Record(results, "success",
                              Detail(orders[idx], "success", outcome.status))
                     ELSE Record(results, "failed",
                              Detail(orders[idx], "failed", outcome.status))
                /\ pc' = "batch_delay"
                /\ UNCHANGED idx
    /\ UNCHANGED <<op, wa_phone, conn, api_key, response, phoneVars,
                   singleVars, delay, dry_run, rows, orders, pauses>>

\* lines 160-191: the gateway call and the outcome it gives
BatchCall ==
    /\ op \in {"automate_send_messages", "send_batch_whatsapp_messages"}
    /\ pc = "batch_call"
    /\ \E outcome \in GatewayOutcomes :
        /\ gateway_log' = Append(gateway_log,
               [order_id |-> orders[idx].order_id, outcome |-> outcome])
        /\ IF Raised(outcome)
           THEN BatchExcept
           ELSE /\ results' =
                     IF outcome.status \in {200, 201}
                     THEN Record(results, "success",
                              Detail(orders[idx], "success", outcome.status))
                     ELSE Record(results, "failed",
                              Detail(orders[idx], "failed", outcome.status))
                /\ pc' = "batch_delay"
                /\ UNCHANGED idx
    /\ UNCHANGED <<op, wa_phone, conn, api_key, response, phoneVars,
                   singleVars, delay, dry_run, rows, orders, pauses>>

\* delay_seconds > 0: a str or None against an int raises TypeError
DelayTest(d) ==
    CASE d.kind = "number" -> IF d.val > 0 THEN "positive" ELSE "not positive"
      [] d.kind = "inf" -> "positive"
      [] OTHER -> "TypeError"

\* time.sleep(delay_seconds): an infinite delay raises OverflowError
SleepReturns(d) == d.kind = "number"

\* lines 193-195, inside the try of line 160: the pacing pause after an
\* outcome was recorded; what the test or the sleep raises goes to the handler
BatchDelay ==
    /\ op \in {"automate_send_messages", "send_batch_whatsapp_messages"}
    /\ pc = "batch_delay"
    /\ IF DelayTest(delay) = "positive"
       THEN (IF SleepReturns(delay)
             THEN /\ pauses' = Append(pauses, orders[idx].order_id)
                  /\ idx' = idx + 1
                  /\ pc' = "batch_loop"
                  /\ UNCHANGED results
             ELSE BatchExcept /\ UNCHANGED pauses)
       ELSE IF DelayTest(delay) = "TypeError"
       THEN (BatchExcept /\ UNCHANGED pauses)
       ELSE /\ idx' = idx + 1
            /\ pc' = "batch_loop"
            /\ UNCHANGED <<results, pauses>>
    /\ UNCHANGED <<op, wa_phone, conn, api_key, gateway_log, response,
                   phoneVars, singleVars, delay, dry_run, rows, orders>>

InitBatch ==
    /\ op = "send_batch_whatsapp_messages"
    /\ pc = "batch_start"
    /\ db_phone = None
    /\ wa_phone = None
    /\ matched = "unset"
    /\ default_country_code = DefaultCode
    /\ parsed = NotParsed
    /\ req_order_id = None
    /\ order_id_int = 0
    /\ conn = "none"
    /\ row = NoRow
    /\ order_data = NoOrder
    /\ authorized = FALSE
    /\ api_key \in BOOLEAN
    /\ gateway_log = <<>>
    /\ response = NoResponse
    /\ delay \in JsonDelays
    /\ dry_run = FALSE
    /\ rows = <<>>
    /\ orders \in OrderLists(MaxOrders)
    /\ idx = 0
    /\ results = NoResults
    /\ pauses = <<>>

----------------------------------------------------------------------------
(* db.py: fetch_orders_for_automation *)

\* lines 125-129
FetchOrdersConnect ==
    /\ op = "automate_send_messages"
    /\ pc = "fetch_connect"
    /\ \/ /\ conn' = "open"
          /\ pc' = "fetch_query"
       \/ /\ conn' = "none"
          /\ pc' = "fetch_raised"
    /\ UNCHANGED <<op, wa_phone, api_key, gateway_log, response, phoneVars,
                   singleVars, batchVars>>

\* lines 132-173 and the finally of line 208: the query fails, or
\* fetchall() gives the rows the filters select, largest order_id first
FetchOrdersQuery ==
    /\ op = "automate_send_messages"
    /\ pc = "fetch_query"
    /\ \/ /\ rows' \in RowLists(MaxRows)
          /\ pc' = "fetch_rows"
          /\ UNCHANGED conn
       \/ /\ Finally(TRUE)
          /\ pc' = "fetch_raised"
          /\ UNCHANGED rows
    /\ UNCHANGED <<op, wa_phone, api_key, gateway_log, response, phoneVars,
                   singleVars, delay, dry_run, orders, idx, results, pauses>>

\* lines 176-204: the rows with a usable phone, as orders
RECURSIVE OrdersOf(_)
OrdersOf(rs) ==
    IF rs = <<>> THEN <<>>
    ELSE LET r == Head(rs)
             phone == PyOr(PyOr(r.order_phone, r.customer_phone), <<>>)
         IN  IF ~Truthy(phone) \/ Len(Strip(phone)) < MinPhoneLen
             THEN OrdersOf(Tail(rs))
             ELSE <<[order_id |-> PyStr(r.order_id),
                     customer_name |-> "Customer",
                     phone |-> phone]>> \o OrdersOf(Tail(rs))

\* lines 175-208
FetchOrdersReturn ==
    /\ op = "automate_send_messages"
    /\ pc = "fetch_rows"
    /\ \/ /\ orders' = OrdersOf(rows)
          /\ Finally(FALSE)
          /\ pc' = "fetched"
       \/ \* processing a row raises
          /\ rows # <<>>
          /\ Finally(TRUE)
          /\ pc' = "fetch_raised"
          /\ UNCHANGED orders
    /\ UNCHANGED <<op, wa_phone, api_key, gateway_log, response, phoneVars,
                   singleVars, delay, dry_run, rows, idx, results, pauses>>

----------------------------------------------------------------------------
(* app.py: automate_send_messages *)

InitAutomate ==
    /\ op = "automate_send_messages"
    /\ pc = "start"
    /\ db_phone = None
    /\ wa_phone = None
    /\ matched = "unset"
    /\ default_country_code = DefaultCode
    /\ parsed = NotParsed
    /\ req_order_id = None
    /\ order_id_int = 0
    /\ conn = "none"
    /\ row = NoRow
    /\ order_data = NoOrder
    /\ authorized = FALSE
    /\ api_key \in BOOLEAN
    /\ gateway_log = <<>>
    /\ response = NoResponse
    /\ delay = NoDelay
    /\ dry_run = FALSE
    /\ rows = <<>>
    /\ orders = <<>>
    /\ idx = 0
    /\ results = NoResults
    /\ pauses = <<>>

Failure(code, message) ==
    [code |-> code, kind |-> message, success |-> FALSE]

\* lines 376-388: the parameters of a GET, or of a POST whose body is read
\* (request.get_json() raises on a body that is no JSON: line 444)
AutomateReadParams ==
    /\ op = "automate_send_messages"
    /\ pc = "start"
    /\ \/ /\ delay' \in QueryDelays
          /\ dry_run' \in BOOLEAN
          /\ pc' = "fetch_connect"
          /\ UNCHANGED response
       \/ /\ delay' \in JsonDelays
          /\ dry_run' \in BOOLEAN
          /\ pc' = "fetch_connect"
          /\ UNCHANGED response
       \/ /\ response' = Failure(500, "Failed to process automation: body")
          /\ pc' = "done"
          /\ UNCHANGED <<delay, dry_run>>
    /\ UNCHANGED <<op, wa_phone, conn, api_key, gateway_log, phoneVars,
                   singleVars, rows, orders, idx, results, pauses>>

\* lines 444-449: whatever the fetch or the batch sender raised
AutomateError ==
    /\ op = "automate_send_messages"
    /\ pc \in {"fetch_raised", "batch_raised"}
    /\ response' = Failure(500, IF pc = "fetch_raised"
                                THEN "Failed to process automation: fetch"
                                ELSE "Failed to process automation: batch")
    /\ pc' = "done"
    /\ UNCHANGED <<op, wa_phone, conn, api_key, gateway_log, phoneVars,
                   singleVars, batchVars>>

AutomateCheckEmptyIsSuccess ==
    /\ op = "automate_send_messages"
    /\ pc = "fetched"
    /\ IF dry_run
       THEN /\ response' = [code |-> 200, kind |-> "dry run",
                            success |-> TRUE, orders |-> orders]
            /\ pc' = "done"
       ELSE /\ pc' = "batch_start"
            /\ UNCHANGED response
    /\ UNCHANGED <<op, wa_phone, conn, api_key, gateway_log, phoneVars,
                   singleVars, batchVars>>

\* lines 397-425: nothing fetched, a dry run, or on to the batch sender
AutomateCheck ==
    /\ op = "automate_send_messages"
    /\ pc = "fetched"
    /\ IF orders = <<>>
       THEN /\ response' = Failure(404, "No orders found matching the criteria")
            /\ pc' = "done"
       ELSE IF dry_run
       THEN /\ response' = [code |-> 200, kind |-> "dry run",
                            success |-> TRUE, orders |-> orders]
            /\ pc' = "done"
       ELSE /\ pc' = "batch_start"
            /\ UNCHANGED response
    /\ UNCHANGED <<op, wa_phone, conn, api_key, gateway_log, phoneVars,
                   singleVars, batchVars>>

\* lines 427-442: the summary and the details of the batch run
AutomateRespond ==
    /\ op = "automate_send_messages"
    /\ pc = "batch_returned"
    /\ response' = [code |-> 200, kind |-> "processed", success |-> TRUE,
                    summary |-> [total |-> results.total,
                                 success |-> results.success,
                                 failed |-> results.failed,
                                 skipped |-> results.skipped],
                    details |-> results.details]
    /\ pc' = "done"
    /\ UNCHANGED <<op, wa_phone, conn, api_key, gateway_log, phoneVars,
                   singleVars, batchVars>>

NextBatch ==
    \/ BatchStart
    \/ BatchLoop
    \/ BatchCall
    \/ BatchDelay
    \/ FetchOrdersConnect
    \/ FetchOrdersQuery
    \/ FetchOrdersReturn
    \/ AutomateReadParams
    \/ AutomateError
    \/ AutomateCheck
    \/ AutomateRespond

SpecBatch == (InitBatch \/ InitAutomate) /\ [][NextBatch]_vars

----------------------------------------------------------------------------
(* Every operation *)

Init ==
    InitPhone \/ InitParse \/ InitOrderStatus \/ InitFetchOrder \/ InitBatch \/ InitAutomate

Next == NextPhone \/ NextOrder \/ NextBatch

Spec == Init /\ [][Next]_vars

----------------------------------------------------------------------------
(* Claims about phone_matches *)

\* C8 (as stated): for all pairs of phone strings whose canonical digit-only
\* forms are equal, phone_matches returns true.
C8_EqualFormsMatch ==
    (op = "phone_matches" /\ pc = "done"
        /\ normalize_phone(db_phone) = normalize_phone(wa_phone))
        => matched = TRUE

\* C8 (amended): for all pairs of phone strings whose canonical digit-only
\* forms are equal and not empty, phone_matches returns true.
C8_EqualNonEmptyFormsMatch ==
    (/\ op = "phone_matches"
     /\ pc = "done"
     /\ normalize_phone(db_phone) = normalize_phone(wa_phone)
     /\ normalize_phone(db_phone) # <<>>)
        => matched = TRUE

\* two differently written phones, fewer than nine digits each, same digits
C8_Witness ==
    /\ op = "phone_matches"
    /\ pc = "done"
    /\ db_phone # wa_phone
    /\ normalize_phone(db_phone) = normalize_phone(wa_phone)
    /\ normalize_phone(db_phone) # <<>>
    /\ Len(normalize_phone(db_phone)) < SuffixLen
    /\ matched = TRUE

\* C9: for all pairs of phone strings where at least one canonical
\* digit-only form is empty (None, empty, or no digit character),
\* phone_matches returns false whatever the other phone is.
\* So an order whose stored phone is empty is authorized by no caller phone.
C9_EmptyFormNeverMatches ==
    /\ (/\ op = "phone_matches"
        /\ pc = "done"
        /\ \/ normalize_phone(db_phone) = <<>>
           \/ normalize_phone(wa_phone) = <<>>)
           => matched = FALSE
    /\ (/\ op \in {"order_status", "fetch_order_with_validation"}
        /\ pc = "fetched"
        /\ row # NoRow
        /\ \A ph \in {row.order_phone, row.customer_phone} :
              ph \in {None, <<>>})
           => authorized = FALSE

\* both forms empty, from phones that are not the empty string
C9_Witness ==
    /\ op = "phone_matches"
    /\ pc = "done"
    /\ db_phone \notin {None, <<>>}
    /\ wa_phone \notin {None, <<>>}
    /\ normalize_phone(db_phone) = <<>>
    /\ normalize_phone(wa_phone) = <<>>
    /\ matched = FALSE

\* C13: for two phone strings whose canonical digit-only forms are both
\* non-empty and different, if at least one form has fewer than 9 digits,
\* phone_matches returns false.
C13_ShortNumberNeverSuffixMatches ==
    (/\ op = "phone_matches"
     /\ pc = "done"
     /\ normalize_phone(db_phone) # <<>>
     /\ normalize_phone(wa_phone) # <<>>
     /\ normalize_phone(db_phone) # normalize_phone(wa_phone)
     /\ \/ Len(normalize_phone(db_phone)) < 9
        \/ Len(normalize_phone(wa_phone)) < 9)
        => matched = FALSE

\* an 8-digit stored phone that is the end of the caller's longer phone
C13_Witness ==
    /\ op = "phone_matches"
    /\ pc = "done"
    /\ Len(normalize_phone(db_phone)) = 8
    /\ Len(normalize_phone(wa_phone)) >= 9
    /\ LastN(normalize_phone(wa_phone), 8) = normalize_phone(db_phone)
    /\ matched = FALSE

----------------------------------------------------------------------------
(* Claims about parse_phone_number *)

AllDigits(s) == \A i \in 1..Len(s) : IsDigit(s[i])

\* the split C11 describes, on the digits of the phone
C11_Split(phone, default) ==
    LET leadingPlus == StartsWith(DigitsAndPlus(Strip(phone)), <<"+">>)
        digits == SelectSeq(phone, IsDigit)
    IN  IF leadingPlus /\ StartsWith(digits, <<"9", "1">>) /\ Len(digits) >= 12
        THEN Pair(<<"+", "9", "1">>, DropFirst(digits, 2))
        ELSE IF leadingPlus /\ StartsWith(digits, <<"1">>) /\ Len(digits) >= 11
        THEN Pair(<<"+", "1">>, DropFirst(digits, 1))
        ELSE IF ~leadingPlus /\ StartsWith(digits, <<"9", "1">>)
                /\ Len(digits) >= 12
        THEN Pair(<<"+", "9", "1">>, DropFirst(digits, 2))
        ELSE Pair(default, digits)

\* C11: parse_phone_number splits every phone by the rule: "+" then digits
\* starting "91", 12 or more, gives +91 and the digits after "91"; "+" then
\* digits starting "1", 11 or more, gives +1 and the digits after "1"; no
\* "+" but digits starting "91", 12 or more, gives +91; every other phone
\* gives the default country code with the full cleaned digit string; and
\* the returned subscriber number is decimal digits only in every case.
C11_SplitRuleDigitsOnly ==
    (op = "parse_phone_number" /\ pc = "done") =>
        /\ parsed = C11_Split(wa_phone, default_country_code)
        /\ AllDigits(parsed.phone_number)

\* C11, where the code agrees with it: on a phone with no "+" after the
\* leading one the split is the rule's and the number is digits only.
C11_SplitRuleWithoutInnerPlus ==
    (/\ op = "parse_phone_number"
     /\ pc = "done"
     /\ LET clean == DigitsAndPlus(Strip(wa_phone))
        IN  AllDigits(IF StartsWith(clean, <<"+">>)
                      THEN DropFirst(clean, 1) ELSE clean))
        => /\ parsed = C11_Split(wa_phone, default_country_code)
           /\ AllDigits(parsed.phone_number)

----------------------------------------------------------------------------
(* Claims about the single-order operations *)

\* the stored phone, as the claim words it: the order-level phone, else the
\* customer-level phone, else empty
C1_StoredPhone ==
    IF row.order_phone \notin {None, <<>>} THEN row.order_phone
    ELSE IF row.customer_phone \notin {None, <<>>} THEN row.customer_phone
    ELSE <<>>

\* C1: fetch_order_with_validation returns authorized = true if and only if
\* a row was found and phone_matches(stored phone, caller phone) is true;
\* no row gives (absent, false), a found row gives the Order either way.
C1_AuthorizedIffFoundAndMatching ==
    (op \in {"order_status", "fetch_order_with_validation"} /\ pc = "fetched")
        => IF row = NoRow
           THEN order_data = NoOrder /\ authorized = FALSE
           ELSE /\ order_data = [order_id |-> PyStr(order_id_int)]
                /\ authorized = phone_matches(C1_StoredPhone, wa_phone)

\* authorized through the customer-level phone, written another way than
\* the caller's, while the order-level phone is empty
C1_Witness ==
    /\ op = "fetch_order_with_validation"
    /\ pc = "fetched"
    /\ row # NoRow
    /\ row.order_phone = <<>>
    /\ row.customer_phone # wa_phone
    /\ authorized = TRUE

\* C2: in order_status the gateway is called only after the order was found
\* and authorized: never on a path that ends in 400, 404, 403 or the
\* data-access 500, and exactly once on the authorized path.
C2_GatewayOnlyAfterAuthorized ==
    op = "order_status" =>
        /\ gateway_log # <<>> => (order_data # NoOrder /\ authorized = TRUE)
        /\ (pc = "done" /\ response.kind # "sent"
                        /\ response.kind # "unhandled exception")
               => (response.code \in {400, 404, 403, 500} /\ gateway_log = <<>>)
        /\ (pc = "done" /\ authorized = TRUE)
               => (/\ Len(gateway_log) = 1
                   /\ gateway_log[1].order_id = order_data.order_id
                   /\ response.kind \in {"sent", "unhandled exception"})

C2_Witness ==
    /\ op = "order_status"
    /\ pc = "done"
    /\ authorized = TRUE
    /\ Len(gateway_log) = 1
    /\ response = [code |-> 201, kind |-> "sent"]

----------------------------------------------------------------------------
(* Claims about the batch operations *)

InBatch == op \in {"automate_send_messages", "send_batch_whatsapp_messages"}

DetailsOf(order) ==
    SelectSeq(results.details, LAMBDA d : d.order_id = order.order_id)

CallsOf(order) ==
    SelectSeq(gateway_log, LAMBDA c : c.order_id = order.order_id)

PausesOf(order) == SelectSeq(pauses, LAMBDA id : id = order.order_id)

\* the orders the loop is done with
Processed == 1..(IF idx - 1 < Len(orders) THEN idx - 1 ELSE Len(orders))

\* a phone that is missing, or whose trimmed length is under 10
NoUsablePhone(order) ==
    \/ order.phone \in {Missing, None, <<>>}
    \/ Len(Strip(order.phone)) < MinPhoneLen

BatchReturned ==
    /\ InBatch
    /\ \/ pc = "batch_returned"
       \/ pc = "done" /\ response.kind = "processed"

\* C3: when send_batch_whatsapp_messages returns, success + failed + skipped
\* = total and len(details) = total: one outcome record per input order, in
\* input order, whatever the gateway answers and whatever delay was passed.
C3_OneOutcomePerOrder ==
    BatchReturned =>
        /\ results.total = Len(orders)
        /\ results.success + results.failed + results.skipped = results.total
        /\ Len(results.details) = results.total
        /\ \A i \in 1..Len(orders) :
              i <= Len(results.details)
                  => results.details[i].order_id = orders[i].order_id

\* C4: an order without a usable phone gets a "skipped" outcome and no
\* gateway call; every other order gets exactly one gateway call, and the
\* outcome recorded for a returned status is "success" exactly for 200 and
\* 201 and "failed" for any other status.
C4_SkipOrSingleCall ==
    InBatch =>
        /\ \A i \in Processed :
              IF NoUsablePhone(orders[i])
              THEN /\ CallsOf(orders[i]) = <<>>
                   /\ DetailsOf(orders[i])
                          = <<Detail(orders[i], "skipped", 0)>>
              ELSE /\ Len(CallsOf(orders[i])) = 1
                   /\ LET out == CallsOf(orders[i])[1].outcome
                      IN  ~Raised(out) =>
                            Head(DetailsOf(orders[i])) =
                                Detail(orders[i],
                                       IF out.status \in {200, 201}
                                       THEN "success" ELSE "failed",
                                       out.status)
        /\ \A i \in 1..Len(orders) :
              i > idx => CallsOf(orders[i]) = <<>>

\* a run that skipped an order for its blank-padded phone and sent two
\* others, one answered 201 and one answered 202
C4_Witness ==
    /\ op = "send_batch_whatsapp_messages"
    /\ pc = "batch_returned"
    /\ \E i, j, k \in 1..Len(orders) :
          /\ orders[i].phone = <<" ">> \o Tail9
          /\ DetailsOf(orders[i]) = <<Detail(orders[i], "skipped", 0)>>
          /\ DetailsOf(orders[j]) = <<Detail(orders[j], "success", 201)>>
          /\ DetailsOf(orders[k]) = <<Detail(orders[k], "failed", 202)>>

\* C5: an exception raised by the gateway call for one order is caught,
\* recorded for that order as "error", counted under failed, and does not
\* abort the batch: every later order is processed and gets its outcome.
C5_GatewayExceptionIsolated ==
    InBatch =>
        /\ pc # "batch_raised"
        /\ \A i \in Processed :
              (CallsOf(orders[i]) # <<>> /\ Raised(CallsOf(orders[i])[1].outcome))
                  => DetailsOf(orders[i]) = <<Detail(orders[i], "error", 0)>>
        /\ results.failed =
              Cardinality({n \in 1..Len(results.details) :
                              results.details[n].status \in {"failed", "error"}})
        /\ BatchReturned =>
              \A i \in 1..Len(orders) : DetailsOf(orders[i]) # <<>>

\* the first order's call raised, a later order was sent
C5_Witness ==
    /\ op = "send_batch_whatsapp_messages"
    /\ pc = "batch_returned"
    /\ Len(orders) >= 2
    /\ DetailsOf(orders[1]) = <<Detail(orders[1], "error", 0)>>
    /\ results.failed = 1
    /\ \E j \in 2..Len(orders) :
          DetailsOf(orders[j]) = <<Detail(orders[j], "success", 200)>>

\* C6 (as stated): without the credential, the fault raised by the gateway
\* call in a batch run is not caught per-item and not turned into a
\* per-order outcome; it propagates out of the batch run.
C6_MissingCredentialPropagates ==
    (InBatch /\ ~api_key /\ gateway_log # <<>>)
        => /\ pc \in {"batch_raised", "done"}
           /\ \A n \in 1..Len(results.details) :
                 results.details[n].status # "error"

\* C6 (amended): without the credential, the fault raised by the gateway
\* call in a batch run is caught per-item and recorded as an "error"
\* outcome, counted under failed, for every order that is not skipped; it
\* does not propagate out of the batch run.
C6_MissingCredentialRecordedPerItem ==
    (InBatch /\ ~api_key) =>
        /\ pc # "batch_raised"
        /\ \A i \in Processed :
              ~NoUsablePhone(orders[i]) =>
                  /\ CallsOf(orders[i]) =
                        <<[order_id |-> orders[i].order_id,
                           outcome |-> Raises("RuntimeError")]>>
                  /\ DetailsOf(orders[i]) = <<Detail(orders[i], "error", 0)>>
        /\ BatchReturned =>
              /\ results.success = 0
              /\ results.failed =
                    Cardinality({i \in 1..Len(orders) : ~NoUsablePhone(orders[i])})

C6_Witness ==
    /\ op = "send_batch_whatsapp_messages"
    /\ ~api_key
    /\ pc = "batch_returned"
    /\ results.failed >= 2
    /\ results.skipped >= 1

PositiveDelay == delay.kind = "number" /\ delay.val > 0

\* C7: with a positive delay, the pause happens after an order exactly when
\* the order was attempted (success, failed or error) and is not the final
\* order of the list: none after a skipped order, none after the final
\* order, one after every other attempted order, a raised call included.
C7_PauseAfterAttemptExceptLast ==
    (BatchReturned /\ PositiveDelay) =>
        \A i \in 1..Len(orders) :
            Len(PausesOf(orders[i])) =
                IF ~NoUsablePhone(orders[i]) /\ i < Len(orders) THEN 1 ELSE 0

\* C7, where the code departs from it: the pause of lines 194-195 follows
\* every call that returned a status, the final order's too, and is jumped
\* over when the call raised.
C7_PauseAfterReturnedStatus ==
    (InBatch /\ PositiveDelay) =>
        \A i \in Processed :
            Len(PausesOf(orders[i])) =
                IF /\ CallsOf(orders[i]) # <<>>
                   /\ ~Raised(CallsOf(orders[i])[1].outcome)
                THEN 1 ELSE 0

AutomateFailed ==
    response.kind \in {"Failed to process automation: body",
                       "Failed to process automation: fetch",
                       "Failed to process automation: batch"}

\* C10 (as stated): automate_send_messages reports success whenever the
\* fetch itself did not fail, for every fetch result, the empty list too.
C10_SuccessUnlessFetchFails ==
    (op = "automate_send_messages" /\ pc = "done" /\ ~AutomateFailed)
        => response.success = TRUE

\* C10 (amended): automate_send_messages reports success exactly when the
\* request was read, the fetch did not fail and it gave at least one order:
\* a dry run then returns the fetched orders without a gateway call, another
\* run the summary and the details of the batch sender.  An empty fetch
\* result is reported as a failure (404), without a gateway call, as is a
\* request body that cannot be read or a fault of the fetch (500).
C10_SuccessIffOrdersFetched ==
    (op = "automate_send_messages" /\ pc = "done") =>
        IF AutomateFailed
        THEN response = Failure(500, response.kind) /\ gateway_log = <<>>
        ELSE IF orders = <<>>
        THEN /\ response.success = FALSE
             /\ response.code = 404
             /\ gateway_log = <<>>
        ELSE IF dry_run
        THEN /\ response.success = TRUE
             /\ response.code = 200
             /\ response.orders = orders
             /\ gateway_log = <<>>
        ELSE /\ response.success = TRUE
             /\ response.code = 200
             /\ response.summary.total = Len(orders)
             /\ response.summary = [total |-> results.total,
                                    success |-> results.success,
                                    failed |-> results.failed,
                                    skipped |-> results.skipped]
             /\ response.details = results.details
             /\ results.details # <<>>

\* a run that reports success with a mixed summary
C10_Witness ==
    /\ op = "automate_send_messages"
    /\ pc = "done"
    /\ response.success = TRUE
    /\ ~dry_run
    /\ response.summary.success >= 1
    /\ response.summary.failed >= 1

----------------------------------------------------------------------------
(* Claims about the database connection *)

Fetching ==
    op \in {"order_status", "fetch_order_with_validation",
            "automate_send_messages"}

\* C12: in fetch_order_with_validation and fetch_orders_for_automation every
\* connection that was acquired is closed before the function returns or
\* raises, on every exit path; a failed acquisition leaves nothing to close.
\* (The connection is open only inside the function; once it returned, a
\* connection was acquired and is closed; once it raised, the connection is
\* closed or was never acquired.)
C12_ConnectionClosedOnExit ==
    Fetching =>
        /\ conn = "open" => pc \in {"fetch_query", "fetch_row", "fetch_rows"}
        /\ pc \in {"fetch_query", "fetch_row", "fetch_rows"} => conn = "open"
        /\ pc \in {"fetched", "send", "batch_start", "batch_loop", "batch_call",
                   "batch_delay", "batch_returned"} => conn = "closed"
        /\ pc \in {"start", "fetch_connect"} => conn = "none"
        /\ pc \in {"fetch_raised", "done"} => conn \in {"none", "closed"}

\* a batch fetch that raised while processing its rows, connection closed
C12_Witness ==
    /\ op = "automate_send_messages"
    /\ pc = "fetch_raised"
    /\ rows # <<>>
    /\ conn = "closed"

====
